---- MODULE Spec2Model ----
(***************************************************************************)
(* Model of model/rec_dataset.py: the box-overlap function iou and the     *)
(* ReferExpressionDataset (construction with its cache artifact, tokenize, *)
(* tensorize and the per-index fetch __getitem__).                         *)
(*                                                                         *)
(* Numbers.  Box coordinates are floats in the program.  They are modelled *)
(* in fixed point: one pixel is Res sub-pixel steps, so the program's "+1" *)
(* is "+Res" here.  An overlap (a float quotient) is kept as the exact     *)
(* fraction num/den the program divides; comparisons with 0, 0.5 and 1 are *)
(* done on the fraction, which agrees with the rounded float because 0,    *)
(* 0.5 and 1 are representable and rounding is monotone.                   *)
(***************************************************************************)
EXTENDS Integers, Sequences, FiniteSets, TLC

\* ------------------------------------------------------------------ bounds
\* sub-pixel steps per pixel of the modelled coordinates
Res == 2
\* largest x coordinate (in sub-pixel steps) of a box given to iou directly
MaxX == 3
\* largest y coordinate (in sub-pixel steps) of a box given to iou directly
MaxY == 3
\* largest max_region_num configured
MaxRegionNum == 3
\* largest valid count the detector store reports
MaxDet == 2
\* largest valid count the ground-truth store reports
MaxGt == 2
\* largest max_seq_length configured
MaxSeqLength == 4
\* most words of a caption
MaxCaptionLen == 2

\* ------------------------------------------------------------- the state
VARIABLES
    iou_pc,              \* "call" before iou runs, "done" after, "off" when unused
    iou_anchors,         \* argument anchors  (N x 4)
    iou_gt_boxes,        \* argument gt_boxes (K x 4)
    iou_overlaps,        \* returned overlaps (N x K), <<>> before the call
    split,               \* self.split
    max_region_num,      \* self.max_region_num
    max_seq_length,      \* self._max_seq_length
    padding_index,       \* self._padding_index
    refs,                \* self.refer: the refs of the split, in ref_ids order
    image_features,      \* self._image_features_reader: image_id -> regions
    gt_image_features,   \* self._gt_image_features_reader: image_id -> regions
    cache_file,          \* the file at cache_path
    phase,               \* "new", "ready" (constructed), "raised" (__init__ raised)
    cache_found,         \* what __init__ found at cache_path (history)
    entries,             \* self.entries
    pc,                  \* per worker: "idle", "read", "returned", "raised"
    index,               \* per worker: the index it fetches
    frame,               \* per worker: what the fetch has read (its locals)
    result               \* per worker: the outcome of its fetch

iou_vars == <<iou_pc, iou_anchors, iou_gt_boxes, iou_overlaps>>

config_vars == <<split, max_region_num, max_seq_length, padding_index>>

store_vars == <<refs, image_features, gt_image_features>>

dataset_vars == <<cache_file, phase, cache_found, entries>>

worker_vars == <<pc, index, frame, result>>

vars == <<iou_vars, config_vars, store_vars, dataset_vars, worker_vars>>

\* --------------------------------------------------------------- helpers
Min(a, b) == IF a < b THEN a ELSE b

Max(a, b) == IF a > b THEN a ELSE b

\* a float quotient, kept as the fraction the program divides
Frac(n, d) == [num |-> n, den |-> d]

\* the float 0.0
FZero == Frac(0, 1)

\* r == 0.0 (0/0 is nan, which is not 0)
IsZero(r) == r.num = 0 /\ r.den # 0

\* r < 0.5 as numpy evaluates it (nan and inf compare False)
LessThanHalf(r) ==
    IF r.den > 0 THEN 2 * r.num < r.den
    ELSE IF r.den < 0 THEN 2 * r.num > r.den
    ELSE FALSE

\* 0.5 <= r <= 1.0
InHalfToOne(r) == r.den > 0 /\ 2 * r.num >= r.den /\ r.num <= r.den

\* 0.0 <= r <= 1.0
InZeroToOne(r) == r.den > 0 /\ r.num >= 0 /\ r.num <= r.den

\* mutant of BoxArea: the exclusive convention, without the + 1
BoxAreaExclusive(b) == (b[3] - b[1]) * (b[4] - b[2])

\* ------------------------------------------------------------------- iou
\* (x2 - x1 + 1) * (y2 - y1 + 1), lines 33-34
BoxArea(b) == (b[3] - b[1] + Res) * (b[4] - b[2] + Res)

\* mutant of ClipNeg: the clipping of lines 40 and 43 left out
ClipNegMissing(v) == v

\* iw[iw < 0] = 0 and ih[ih < 0] = 0, lines 40 and 43
ClipNeg(v) == IF v < 0 THEN 0 ELSE v

\* line 39 followed by line 40
IntersectW(a, b) == ClipNeg(Min(a[3], b[3]) - Max(a[1], b[1]) + Res)

\* line 42 followed by line 43
IntersectH(a, b) == ClipNeg(Min(a[4], b[4]) - Max(a[2], b[2]) + Res)

\* iw * ih
Intersection(a, b) == IntersectW(a, b) * IntersectH(a, b)

\* ua = anchors_area + gt_boxes_area - (iw * ih), line 45
UnionArea(a, b) == BoxArea(a) + BoxArea(b) - Intersection(a, b)

\* overlaps = iw * ih / ua for every pair (anchor i, gt box k), lines 30-48
iou(anchors, gt_boxes) ==
    [i \in 1..Len(anchors) |->
        [k \in 1..Len(gt_boxes) |->
            Frac(Intersection(anchors[i], gt_boxes[k]),
                 UnionArea(anchors[i], gt_boxes[k]))]]

\* ------------------------------------------------------ python sequences
\* a python slice bound n on a sequence of length len
NormIdx(n, len) == IF n < 0 THEN Max(len + n, 0) ELSE Min(n, len)

\* s[lo:hi]
PySlice(s, lo, hi) ==
    LET a == NormIdx(lo, Len(s))
        b == NormIdx(hi, Len(s))
    IN  IF b > a THEN SubSeq(s, a + 1, b) ELSE <<>>

\* [v] * n (empty when n <= 0)
Repeat(v, n) == [j \in 1..n |-> v]

\* np.array(x) of a list or array of ints: the same elements in the same
\* order; lists and arrays are both sequences here
NpArray(x) == x

\* ------------------------------------------------------------- tokenizer
\* the sub-word pieces of one word
Pieces(word) ==
    CASE word = "a"    -> <<"a">>
      [] word = "cars" -> <<"car", "##s">>
      [] OTHER         -> <<word>>

\* self._tokenizer.tokenize(caption): the pieces of the words, in order
RECURSIVE BertTokenize(_)
BertTokenize(caption) ==
    IF caption = <<>> THEN <<>>
    ELSE Pieces(Head(caption)) \o BertTokenize(Tail(caption))

\* self._vocab: piece -> id ("zq" is a piece outside the vocabulary)
Vocab ==
    ("[UNK]" :> 100) @@ ("[CLS]" :> 101) @@ ("[SEP]" :> 102)
        @@ ("a" :> 7) @@ ("car" :> 8) @@ ("##s" :> 9)

\* ------------------------------------------------------ _load_annotations
\* the entries of one ref: one per (sentence, sent_id) pair, lines 108-113
RECURSIVE RefEntries(_, _)
RefEntries(ref, k) ==
    IF k > Min(Len(ref.sentences), Len(ref.sent_ids)) THEN <<>>
    ELSE <<[caption |-> ref.sentences[k], sent_id |-> ref.sent_ids[k],
            image_id |-> ref.image_id, refBox |-> ref.refBox,
            ref_id |-> ref.ref_id,
            token |-> <<>>, input_mask |-> <<>>, segment_ids |-> <<>>]>>
         \o RefEntries(ref, k + 1)

\* lines 101-115; token, input_mask and segment_ids are not yet set (<<>>)
RECURSIVE load_annotations(_)
load_annotations(rs) ==
    IF rs = <<>> THEN <<>>
    ELSE RefEntries(Head(rs), 1) \o load_annotations(Tail(rs))

\* --------------------------------------------------------------- tokenize
\* lines 125-131: markers added, then every piece mapped to its id
TokenIds(caption) ==
    LET sentence_tokens == <<"[CLS]">> \o BertTokenize(caption) \o <<"[SEP]">>
    IN  [j \in 1..Len(sentence_tokens) |->
            IF sentence_tokens[j] \in DOMAIN Vocab
            THEN Vocab[sentence_tokens[j]] ELSE Vocab["[UNK]"]]

\* line 133
TruncateTokens(tokens, L) == PySlice(tokens, 0, L)

\* lines 139-142: what is appended to tokens, input_mask and segment_ids
Padding(n, L, pad) == Repeat(pad, L - n)

\* lines 125-147 for one entry
tokenize_entry(entry, L, pad) ==
    LET tokens      == TruncateTokens(TokenIds(entry.caption), L)
        segment_ids == Repeat(0, Len(tokens))
        input_mask  == Repeat(1, Len(tokens))
        short       == Len(tokens) < L
        padding     == Padding(Len(tokens), L, pad)
    IN  [entry EXCEPT
            !.token       = IF short THEN tokens \o padding ELSE tokens,
            !.input_mask  = IF short THEN input_mask \o padding ELSE input_mask,
            !.segment_ids = IF short THEN segment_ids \o padding ELSE segment_ids]

\* lines 123-147
tokenize(es, L, pad) == [k \in 1..Len(es) |-> tokenize_entry(es[k], L, pad)]

\* line 144 for every entry: FALSE when an assertion fails
assert_eq(es, L) == \A k \in 1..Len(es) : Len(es[k].token) = L

\* lines 151-159
tensorize(es) ==
    [k \in 1..Len(es) |->
        [es[k] EXCEPT !.token       = NpArray(es[k].token),
                      !.input_mask  = NpArray(es[k].input_mask),
                      !.segment_ids = NpArray(es[k].segment_ids)]]

\* ------------------------------------------------------ the cache artifact
NoFile == [kind |-> "none", payload |-> <<>>]

\* a file whose bytes cPickle.load cannot deserialize (damaged or cut short)
CorruptFile == [kind |-> "corrupt", payload |-> <<>>]

\* cPickle.dump(self.entries, open(cache_path, 'wb')), line 91
PickleDump(es) == [kind |-> "pkl", payload |-> es]

\* os.path.exists(cache_path), line 88
PathExists(f) == f.kind # "none"

\* cPickle.load raises on this file, line 94
LoadRaises(f) == f.kind # "pkl"

\* what cPickle.load returns, line 94
PickleLoad(f) == f.payload

\* ---------------------------------------------------------------- __init__
\* lines 67-94, the whole constructor
Construct ==
    /\ phase = "new"
    /\ cache_found' = cache_file.kind
    /\ LET loaded == load_annotations(refs)
           tokens == tokenize(loaded, max_seq_length, padding_index)
       IN  IF ~PathExists(cache_file)
           THEN IF assert_eq(tokens, max_seq_length)
                THEN /\ entries' = tensorize(tokens)
                     /\ cache_file' = PickleDump(tensorize(tokens))
                     /\ phase' = "ready"
                ELSE /\ entries' = loaded
                     /\ phase' = "raised"
                     /\ UNCHANGED cache_file
           ELSE IF LoadRaises(cache_file)
                THEN /\ entries' = loaded
                     /\ phase' = "raised"
                     /\ UNCHANGED cache_file
                ELSE /\ entries' = PickleLoad(cache_file)
                     /\ phase' = "ready"
                     /\ UNCHANGED cache_file
    /\ UNCHANGED <<iou_vars, config_vars, store_vars, worker_vars>>

\* the dataset is constructed again over the same dataroot (a later run)
ConstructAgain ==
    /\ phase \in {"ready", "raised"}
    /\ \A w \in DOMAIN pc : pc[w] = "idle"
    /\ phase' = "new"
    /\ entries' = <<>>
    /\ cache_found' = "unknown"
    /\ UNCHANGED <<iou_vars, config_vars, store_vars, cache_file, worker_vars>>

\* ------------------------------------------------------------ __getitem__
\* A 2048-float feature row and a 5-float spatial row are modelled by one
\* number naming the row; 0 is the all-zero row.  target (max_region_num x 1)
\* is the sequence of its single column.

\* what a reader returns for eval mode's unread ground-truth store
NoRegions == [features |-> <<>>, num_boxes |-> 0, boxes |-> <<>>, boxes_ori |-> <<>>]

\* line 167: (x, y, w, h) -> (x_min, y_min, x_max, y_max), a new list
RefBoxXYXY(rb) == <<rb[1], rb[2], rb[1] + rb[3], rb[2] + rb[4]>>

\* mutant of EntriesAfterRead: the refBox converted in place in the entry
EntriesAfterReadInPlace(es, i) ==
    [es EXCEPT ![i].refBox = RefBoxXYXY(es[i].refBox)]

\* self.entries after lines 162-167: the entry and its refBox are only read
EntriesAfterRead(es, i) == es

\* mutant of MixRows: row 0 of the ground-truth rows is not dropped
MixRowsKeepGold(f, det, gt, spl) ==
    LET d == PySlice(det[f], 0, det.num_boxes)
    IN  IF spl = "train"
        THEN d \o PySlice(gt[f], 0, gt.num_boxes)
        ELSE d

\* lines 170-172 and 178-185: the candidate rows of one of the parallel arrays
\* (field f), detector rows first, then in training mode the ground-truth
\* derived rows 1..gt_num_boxes-1
MixRows(f, det, gt, spl) ==
    LET d == PySlice(det[f], 0, det.num_boxes)
    IN  IF spl = "train"
        THEN d \o PySlice(gt[f], 1, gt.num_boxes)
        ELSE d

\* lines 186 and 195
MixNumBoxes(det, gt, spl, mrn) ==
    IF spl = "train"
    THEN Min(det.num_boxes + gt.num_boxes - 1, mrn)
    ELSE Min(det.num_boxes, mrn)

\* line 189: mix_target[mix_target < 0.5] = 0
Threshold(r) == IF LessThanHalf(r) THEN FZero ELSE r

\* lines 188-189 and 196: one label per candidate row
MixTarget(mix_boxes_ori, ref_box, spl) ==
    LET overlaps == iou(mix_boxes_ori, <<ref_box>>)
    IN  [i \in 1..Len(mix_boxes_ori) |->
            IF spl = "train" THEN Threshold(overlaps[i][1]) ELSE overlaps[i][1]]

\* mutant of ImageMask: the loop runs while len(image_mask) <= max_region_num
ImageMaskOneMore(mix_num_boxes, mrn) ==
    LET ones == Repeat(1, mix_num_boxes)
    IN  ones \o Repeat(0, mrn + 1 - Len(ones))

\* lines 198-200
ImageMask(mix_num_boxes, mrn) ==
    LET ones == Repeat(1, mix_num_boxes)
    IN  ones \o Repeat(0, mrn - Len(ones))

\* dst[:n] = src of numpy and paddle: the rows of src must be as many as the
\* rows of dst[:n], or one row (broadcast); otherwise the assignment raises
AssignFits(dst, n, src) ==
    \/ Len(src) = Len(PySlice(dst, 0, n))
    \/ Len(src) = 1

AssignRows(dst, n, src) ==
    LET k == Len(PySlice(dst, 0, n))
    IN  [r \in 1..Len(dst) |->
            IF r <= k THEN (IF Len(src) = 1 THEN src[1] ELSE src[r])
            ELSE dst[r]]

\* lines 202-206: zeros, then pad[:mix_num_boxes] = rows[:mix_num_boxes]
PadRows(rows, mix_num_boxes, mrn) ==
    AssignRows(Repeat(0, mrn), mix_num_boxes, PySlice(rows, 0, mix_num_boxes))

\* lines 167-221 on what lines 162-180 read; raised = TRUE when a statement
\* raises, and then nothing is returned: the fields are the locals at the raise
getitem_body(entry, det, gt, spl, mrn, L) ==
    LET ref_box       == RefBoxXYXY(entry.refBox)
        mix_boxes_ori == MixRows("boxes_ori", det, gt, spl)
        mix_boxes     == MixRows("boxes", det, gt, spl)
        mix_features  == MixRows("features", det, gt, spl)
        mix_num_boxes == MixNumBoxes(det, gt, spl, mrn)
        mix_target    == MixTarget(mix_boxes_ori, ref_box, spl)
        zeros         == Repeat(0, mrn)
        fits          == /\ AssignFits(zeros, mix_num_boxes,
                                       PySlice(mix_boxes, 0, mix_num_boxes))
                         /\ AssignFits(zeros, mix_num_boxes,
                                       PySlice(mix_features, 0, mix_num_boxes))
        target_fits   == AssignFits(Repeat(FZero, mrn), mix_num_boxes, mix_target)
    IN  [raised            |-> ~(fits /\ target_fits),
         features          |-> IF fits THEN PadRows(mix_features, mix_num_boxes, mrn)
                               ELSE <<>>,
         spatials          |-> IF fits THEN PadRows(mix_boxes, mix_num_boxes, mrn)
                               ELSE <<>>,
         image_mask        |-> ImageMask(mix_num_boxes, mrn),
         caption           |-> IF fits /\ target_fits THEN NpArray(entry.token)
                               ELSE <<>>,
         target            |-> IF fits /\ target_fits
                               THEN AssignRows(Repeat(FZero, mrn), mix_num_boxes,
                                               mix_target)
                               ELSE <<>>,
         input_mask        |-> IF fits /\ target_fits THEN NpArray(entry.input_mask)
                               ELSE <<>>,
         segment_ids       |-> IF fits /\ target_fits THEN NpArray(entry.segment_ids)
                               ELSE <<>>,
         co_attention_mask |-> IF fits /\ target_fits
                               THEN Repeat(Repeat(0, L), mrn) ELSE <<>>,
         image_id          |-> entry.image_id]

\* __getitem__(index) run alone on the shared state, lines 161-221
getitem(i) ==
    getitem_body(entries[i],
                 image_features[entries[i].image_id],
                 IF split = "train"
                 THEN gt_image_features[entries[i].image_id] ELSE NoRegions,
                 split, max_region_num, max_seq_length)

NoFrame == [entry |-> <<>>, det |-> NoRegions, gt |-> NoRegions]

NoResult == <<>>

\* lines 162-180: worker w reads the entry and the stores
GetItemRead(w, i) ==
    /\ phase = "ready"
    /\ pc[w] = "idle"
    /\ i \in 1..Len(entries)
    /\ index' = [index EXCEPT ![w] = i]
    /\ frame' = [frame EXCEPT ![w] =
                    [entry |-> entries[i],
                     det   |-> image_features[entries[i].image_id],
                     gt    |-> IF split = "train"
                               THEN gt_image_features[entries[i].image_id]
                               ELSE NoRegions]]
    /\ entries' = EntriesAfterRead(entries, i)
    /\ pc' = [pc EXCEPT ![w] = "read"]
    /\ UNCHANGED <<iou_vars, config_vars, store_vars, cache_file, phase,
                   cache_found, result>>

\* lines 183-221: worker w merges, labels and packs what it read
GetItemPack(w) ==
    /\ pc[w] = "read"
    /\ LET r == getitem_body(frame[w].entry, frame[w].det, frame[w].gt,
                             split, max_region_num, max_seq_length)
       IN  /\ result' = [result EXCEPT ![w] = r]
           /\ pc' = [pc EXCEPT ![w] = IF r.raised THEN "raised" ELSE "returned"]
    /\ UNCHANGED <<iou_vars, config_vars, store_vars, dataset_vars, index, frame>>

\* the caller of worker w takes the tuple (or the exception)
Release(w) ==
    /\ pc[w] \in {"returned", "raised"}
    /\ pc' = [pc EXCEPT ![w] = "idle"]
    /\ index' = [index EXCEPT ![w] = 0]
    /\ frame' = [frame EXCEPT ![w] = NoFrame]
    /\ result' = [result EXCEPT ![w] = NoResult]
    /\ UNCHANGED <<iou_vars, config_vars, store_vars, dataset_vars>>

\* ------------------------------------------------- the dataset's inputs
Workers == {"w1", "w2"}

\* the one image of the modelled split
ImageId == 7

\* a box given in pixels, in sub-pixel steps
Px(b) == <<b[1] * Res, b[2] * Res, b[3] * Res, b[4] * Res>>

\* the original-scale boxes a store row may hold: their IoU is 1/2, 1/4 and 0
\* against the target box (1,1,4,4), and 1, 1/2 and 0 against (1,1,4,2)
Pool == {Px(<<1, 1, 4, 2>>), Px(<<1, 1, 2, 2>>), Px(<<8, 8, 9, 9>>)}

\* the box of a row beyond a store's valid count
JunkBox == Px(<<5, 5, 6, 6>>)

\* the box of row 0 of the ground-truth store
GoldBox == Px(<<1, 1, 4, 4>>)

\* detector store rows: d valid rows with boxes db, then one invalid row;
\* feature row r is named 10 + r and spatial row r is named 30 + r
DetRegions(d, db) ==
    [features  |-> [r \in 1..(d + 1) |-> 10 + r],
     num_boxes |-> d,
     boxes     |-> [r \in 1..(d + 1) |-> 30 + r],
     boxes_ori |-> [r \in 1..(d + 1) |-> IF r <= d THEN db[r] ELSE JunkBox]]

\* ground-truth store rows: row 0 is the gold box, then g - 1 valid rows with
\* boxes gb, then one invalid row; feature rows 20 + r, spatial rows 40 + r
GtRegions(g, gb) ==
    [features  |-> [r \in 1..(g + 1) |-> 20 + r],
     num_boxes |-> g,
     boxes     |-> [r \in 1..(g + 1) |-> 40 + r],
     boxes_ori |-> [r \in 1..(g + 1) |->
                       IF r = 1 THEN GoldBox
                       ELSE IF r <= g THEN gb[r - 1] ELSE JunkBox]]

Words == {"a", "cars", "zq"}

\* the captions of up to MaxCaptionLen words
Captions == UNION {[1..n -> Words] : n \in 0..MaxCaptionLen}

PaddingIndices == {-1, 0, 1}

\* two refs on the image: the first with two sentences, the second with one;
\* refBox is (x, y, w, h)
TheRefs(c1, c2) ==
    <<[ref_id |-> 1, image_id |-> ImageId, refBox |-> Px(<<1, 1, 3, 3>>),
       sentences |-> <<c1, c2>>, sent_ids |-> <<11, 12>>],
      [ref_id |-> 2, image_id |-> ImageId, refBox |-> Px(<<1, 1, 3, 1>>),
       sentences |-> <<<<"a", "cars">>>>, sent_ids |-> <<21>>]>>

IouOff ==
    /\ iou_pc = "off"
    /\ iou_anchors = <<>>
    /\ iou_gt_boxes = <<>>
    /\ iou_overlaps = <<>>

WorkersIdle ==
    /\ pc = [w \in Workers |-> "idle"]
    /\ index = [w \in Workers |-> 0]
    /\ frame = [w \in Workers |-> NoFrame]
    /\ result = [w \in Workers |-> NoResult]

\* -------------------------------- specification: construction and fetches
Init ==
    /\ IouOff
    /\ split \in {"train", "val"}
    /\ max_region_num \in 1..MaxRegionNum
    /\ max_seq_length = MaxSeqLength
    /\ padding_index = 0
    /\ refs = TheRefs(<<"a">>, <<"zq", "cars">>)
    /\ \E d \in 1..MaxDet : \E db \in [1..d -> Pool] :
           image_features = (ImageId :> DetRegions(d, db))
    /\ \E g \in 1..MaxGt : \E gb \in [1..(g - 1) -> Pool] :
           gt_image_features = (ImageId :> GtRegions(g, gb))
    /\ cache_file = NoFile
    /\ phase = "new"
    /\ cache_found = "unknown"
    /\ entries = <<>>
    /\ WorkersIdle

Next ==
    \/ Construct
    \/ \E w \in Workers : \E i \in 1..Len(entries) : GetItemRead(w, i)
    \/ \E w \in Workers : GetItemPack(w)
    \/ \E w \in Workers : Release(w)

Spec == Init /\ [][Next]_vars

\* --------------------------- specification: construction and its cache file
InitBuild ==
    /\ IouOff
    /\ split = "val"
    /\ max_region_num = 1
    /\ max_seq_length \in 2..MaxSeqLength
    /\ padding_index \in PaddingIndices
    /\ \E c1 \in Captions : \E c2 \in Captions : refs = TheRefs(c1, c2)
    /\ image_features = (ImageId :> DetRegions(1, <<GoldBox>>))
    /\ gt_image_features = (ImageId :> GtRegions(1, <<>>))
    /\ cache_file \in {NoFile, CorruptFile}
    /\ phase = "new"
    /\ cache_found = "unknown"
    /\ entries = <<>>
    /\ WorkersIdle

NextBuild ==
    \/ Construct
    \/ ConstructAgain

SpecBuild == InitBuild /\ [][NextBuild]_vars

\* --------------------------------------------- specification of iou alone
\* every box on the grid, well formed or not
GridBoxes == (0..MaxX) \X (0..MaxY) \X (0..MaxX) \X (0..MaxY)

WellFormed(b) == b[3] >= b[1] /\ b[4] >= b[2]

\* the dataset is not constructed in the specification of iou alone
DatasetOff ==
    /\ split = "val"
    /\ max_region_num = 0
    /\ max_seq_length = 0
    /\ padding_index = 0
    /\ refs = <<>>
    /\ image_features = <<>>
    /\ gt_image_features = <<>>
    /\ cache_file = NoFile
    /\ phase = "off"
    /\ cache_found = "unknown"
    /\ entries = <<>>
    /\ pc = <<>>
    /\ index = <<>>
    /\ frame = <<>>
    /\ result = <<>>

InitIou ==
    /\ iou_pc = "call"
    /\ iou_anchors \in {<<a>> : a \in GridBoxes}
    /\ iou_gt_boxes \in {<<b>> : b \in GridBoxes}
    /\ iou_overlaps = <<>>
    /\ DatasetOff

CallIou ==
    /\ iou_pc = "call"
    /\ iou_overlaps' = iou(iou_anchors, iou_gt_boxes)
    /\ iou_pc' = "done"
    /\ UNCHANGED <<iou_anchors, iou_gt_boxes>>
    /\ UNCHANGED <<config_vars, store_vars, dataset_vars, worker_vars>>

NextIou == CallIou

SpecIou == InitIou /\ [][NextIou]_vars

\* ================================================================ claims
\* the single pair given to iou, and its overlap
A1 == iou_anchors[1]

B1 == iou_gt_boxes[1]

Overlap11 == iou_overlaps[1][1]

\* raw (unclipped) distance between the boxes on each axis, in sub-pixel steps
GapX(a, b) == Max(a[1], b[1]) - Min(a[3], b[3])

GapY(a, b) == Max(a[2], b[2]) - Min(a[4], b[4])

\* C8: for every pair of well-formed boxes given to iou the union area is
\* strictly positive, the intersection is >= 0 and <= the union, so the IoU
\* lies in [0, 1]; and the IoU of a well-formed box with itself is exactly 1.
C8_IouInUnitInterval ==
    (iou_pc = "done" /\ WellFormed(A1) /\ WellFormed(B1)) =>
        /\ Overlap11.den > 0
        /\ Overlap11.num >= 0
        /\ Overlap11.num <= Overlap11.den
        /\ InZeroToOne(Overlap11)
        /\ (A1 = B1 => Overlap11.num = Overlap11.den)

\* iou has run on a well-formed zero-width, zero-height box and itself
C8_Witness ==
    /\ iou_pc = "done"
    /\ A1 = B1
    /\ A1[3] = A1[1] /\ A1[4] = A1[2]
    /\ Overlap11.den > 0
    /\ Overlap11.num = Overlap11.den

\* C9 as stated: for every pair of well-formed boxes whose interiors are
\* disjoint on the x axis or on the y axis (boxes that only touch along an
\* edge and boxes less than one unit apart included) iou returns exactly 0.
\* Stated here for boxes of positive width and height only.
C9_DisjointInteriorsGiveZero ==
    (/\ iou_pc = "done"
     /\ A1[3] > A1[1] /\ A1[4] > A1[2]
     /\ B1[3] > B1[1] /\ B1[4] > B1[2]
     /\ (GapX(A1, B1) >= 0 \/ GapY(A1, B1) >= 0))
        => IsZero(Overlap11)

\* C9 amended: for every pair of well-formed boxes that are at least one unit
\* apart on the x axis or on the y axis iou returns exactly 0, also when the
\* raw intersection width and height are both negative.
C9_UnitGapGivesZero ==
    (/\ iou_pc = "done"
     /\ WellFormed(A1) /\ WellFormed(B1)
     /\ (GapX(A1, B1) >= Res \/ GapY(A1, B1) >= Res))
        => IsZero(Overlap11)

\* iou has run on two well-formed boxes more than one unit apart on both
\* axes (raw width and raw height both negative) and returned 0
C9_Witness ==
    /\ iou_pc = "done"
    /\ WellFormed(A1) /\ WellFormed(B1)
    /\ GapX(A1, B1) > Res
    /\ GapY(A1, B1) > Res
    /\ IsZero(Overlap11)

\* ------------------------------------------------- claims about the fetch
\* worker w's fetch has ended, by returning or by raising
Fetched(w) == pc[w] \in {"returned", "raised"}

\* the candidate regions available to worker w's fetch
Available(w) ==
    IF split = "train"
    THEN frame[w].det.num_boxes + frame[w].gt.num_boxes - 1
    ELSE frame[w].det.num_boxes

\* the merged count the claims name
ClaimedCount(w) == Min(Available(w), max_region_num)

\* the i-th region (field f) of the candidate order: the detector rows up to
\* the detector valid count, then the ground-truth rows from index 1 on
Candidate(w, f, i) ==
    IF i <= frame[w].det.num_boxes
    THEN frame[w].det[f][i]
    ELSE frame[w].gt[f][i - frame[w].det.num_boxes + 1]

\* the label of candidate i: its IoU against the target box, in training
\* mode zeroed below 0.5
CandidateLabel(w, i) ==
    LET r == iou(<<Candidate(w, "boxes_ori", i)>>,
                 <<RefBoxXYXY(frame[w].entry.refBox)>>)[1][1]
    IN  IF split = "train" /\ LessThanHalf(r) THEN FZero ELSE r

Range(s) == {s[j] : j \in DOMAIN s}

\* C1: when more candidate regions are available than max_region_num, the
\* fetch completes without error with the first max_region_num candidates:
\* region_mask is all ones and target holds exactly their labels.
C1_OverCapacityReturns ==
    \A w \in Workers :
        (Fetched(w) /\ Available(w) > max_region_num) =>
            /\ pc[w] = "returned"
            /\ result[w].image_mask = Repeat(1, max_region_num)
            /\ Len(result[w].target) = max_region_num
            /\ \A i \in 1..max_region_num :
                   result[w].target[i] = CandidateLabel(w, i)

\* C2: in both modes every label at a valid position of target is 0 or a
\* value in [0.5, 1.0].
C2_LabelsThresholded ==
    \A w \in Workers :
        pc[w] = "returned" =>
            \A i \in 1..ClaimedCount(w) :
                \/ IsZero(result[w].target[i])
                \/ InHalfToOne(result[w].target[i])

\* C3: for every fetch that returns, with c the merged count, region_mask has
\* length max_region_num and exactly c ones, all in the first c positions,
\* and target is zero wherever region_mask is zero.
C3_MaskAndTarget ==
    \A w \in Workers :
        pc[w] = "returned" =>
            LET c    == ClaimedCount(w)
                mask == result[w].image_mask
            IN  /\ Len(mask) = max_region_num
                /\ Len(result[w].target) = max_region_num
                /\ Cardinality({i \in 1..Len(mask) : mask[i] = 1}) = c
                /\ \A i \in 1..Len(mask) : mask[i] = (IF i <= c THEN 1 ELSE 0)
                /\ \A i \in 1..Len(mask) :
                       mask[i] = 0 => IsZero(result[w].target[i])

\* a training-mode fetch that merged ground-truth rows has returned with
\* fewer candidates than max_region_num, a nonzero label and a padded tail
C3_Witness ==
    \E w \in Workers :
        /\ pc[w] = "returned"
        /\ split = "train"
        /\ frame[w].gt.num_boxes >= 2
        /\ ClaimedCount(w) < max_region_num
        /\ ~IsZero(result[w].target[1])
        /\ result[w].image_mask[ClaimedCount(w)] = 1
        /\ result[w].image_mask[max_region_num] = 0

\* C4: for every fetch, features and spatials hold at each position below the
\* merged count the region of that position in the candidate order and are
\* zero from the merged count on; in evaluation mode no ground-truth-derived
\* region is in the output.
C4_PackedRegions ==
    \A w \in Workers :
        Fetched(w) =>
            LET c == ClaimedCount(w)
            IN  /\ Len(result[w].features) = max_region_num
                /\ Len(result[w].spatials) = max_region_num
                /\ \A i \in 1..max_region_num :
                       /\ result[w].features[i] =
                              (IF i <= c THEN Candidate(w, "features", i) ELSE 0)
                       /\ result[w].spatials[i] =
                              (IF i <= c THEN Candidate(w, "boxes", i) ELSE 0)
                /\ split # "train" =>
                       /\ Range(result[w].features)
                              \cap Range(gt_image_features[ImageId].features) = {}
                       /\ Range(result[w].spatials)
                              \cap Range(gt_image_features[ImageId].boxes) = {}

\* a training-mode fetch has returned whose last candidate is a ground-truth
\* row and whose last position is padding
C4_Witness ==
    \E w \in Workers :
        /\ pc[w] = "returned"
        /\ split = "train"
        /\ frame[w].gt.num_boxes >= 2
        /\ ClaimedCount(w) < max_region_num
        /\ result[w].features[ClaimedCount(w)] = frame[w].gt.features[frame[w].gt.num_boxes]
        /\ result[w].spatials[ClaimedCount(w)] = frame[w].gt.boxes[frame[w].gt.num_boxes]
        /\ result[w].features[max_region_num] = 0

\* C6: the fetch writes no shared state: once the dataset is constructed no
\* step changes the entries or either region store, and every tuple a worker
\* returns for index i is the tuple of a fetch of i run alone.
C6_FetchReadsOnly ==
    /\ [][phase = "ready" =>
            /\ entries' = entries
            /\ image_features' = image_features
            /\ gt_image_features' = gt_image_features]_vars
    /\ [](\A w \in Workers :
            pc[w] = "returned" => result[w] = getitem(index[w]))

\* two workers have fetched concurrently and out of order, and both returned
C6_Witness ==
    /\ pc["w1"] = "returned"
    /\ pc["w2"] = "returned"
    /\ index["w1"] > index["w2"]
    /\ result["w1"] = getitem(index["w1"])
    /\ result["w2"] = getitem(index["w2"])

\* ------------------------------------------ claims about the construction
\* the entries a construction that finds no cache ends with
BuiltEntries ==
    tensorize(tokenize(load_annotations(refs), max_seq_length, padding_index))

\* C5: a construction that finds a corrupt or partially written cache file
\* raises nothing: it rebuilds the entries and persists them again.
C5_CorruptCacheRebuilt ==
    (phase \in {"ready", "raised"} /\ cache_found = "corrupt") =>
        /\ phase = "ready"
        /\ entries = BuiltEntries
        /\ cache_file = PickleDump(BuiltEntries)

\* tokenize has run in this construction
Tokenized == phase = "ready" /\ cache_found = "none"

\* the tokens of entry k before truncation: the caption's pieces and 2 markers
RealTokens(k) == Len(BertTokenize(entries[k].caption)) + 2

\* C7: after tokenize, for every caption length and every padding_index,
\* token, input_mask and segment_ids have length max_seq_length and
\* input_mask is 1 at exactly the real-token positions, 0 at the padded ones.
C7_FixedLengthAndMask ==
    Tokenized =>
        \A k \in 1..Len(entries) :
            /\ Len(entries[k].token) = max_seq_length
            /\ Len(entries[k].input_mask) = max_seq_length
            /\ Len(entries[k].segment_ids) = max_seq_length
            /\ \A j \in 1..max_seq_length :
                   entries[k].input_mask[j] =
                       (IF j <= Min(RealTokens(k), max_seq_length) THEN 1 ELSE 0)

\* C10: after tokenize every token sequence begins with the id of [CLS] and
\* holds the id of [SEP] after it, for every caption length.
C10_BothMarkers ==
    Tokenized =>
        \A k \in 1..Len(entries) :
            /\ entries[k].token[1] = Vocab["[CLS]"]
            /\ \E j \in 2..max_seq_length : entries[k].token[j] = Vocab["[SEP]"]

====
